---- MODULE Spec2Model ----
(***************************************************************************)
(* Model of the resume analyser's ingestion pipeline                       *)
(* (src/resume_analyzer.py):                                               *)
(*   - ResumeAnalyzer.extract_text_from_pdf and its two paths (SDK, REST   *)
(*     with API-version fallback, legacy endpoint and bounded polling),    *)
(*     specification Spec;                                                 *)
(*   - ResumeAnalyzer.analyze_resume_with_gpt4o's reply parsing and the    *)
(*     record construction of analyze_resume, specification SpecDecode;    *)
(*   - ResumeAnalyzer.extract_structured_content, specification SpecSegment*)
(*   - process_file_upload of src/chainlit_app.py around the extraction,   *)
(*     specification SpecUpload;                                           *)
(*   - two calls interleaved on one shared analyzer and the calls after    *)
(*     them, specification SpecShared.                                     *)
(* Texts are sequences of tokens, each token standing for a fixed piece of *)
(* text, so that find/strip/split/join are computed on the sequence.       *)
(***************************************************************************)
EXTENDS Integers, Sequences, FiniteSets, TLC

VARIABLES
    \* ---- extraction (extract_text_from_pdf) ----
    use_sdk,            \* self.use_sdk
    creds,              \* self.di_key and self.di_endpoint are both non-empty
    file_ok,            \* open(pdf_path, "rb") succeeds
    pc,                 \* position of the extraction call
    vi,                 \* index into api_versions of the next version to try
    tried_sdk,          \* extract_text_from_pdf_sdk was called
    sdk_calls,          \* number of begin_analyze_document calls issued
    sdk_returned,       \* extract_text_from_pdf_sdk returned a text
    seg_calls,          \* number of extract_structured_content calls
    rest_runs,          \* number of calls of extract_text_from_pdf_rest
    submitted,          \* the POST requests issued so far, with their responses
    operation_location, \* the URL polled
    attempt,            \* number of polls (GET) issued
    polled,             \* the URLs polled
    last_poll,          \* the response of the last poll
    outcome,            \* "none", "returned" or "raised"
    error,              \* kind of the exception raised
    error_details,      \* the versions and the statuses its message names
    text,               \* the text returned
    \* ---- decoding (analyze_resume_with_gpt4o, analyze_resume) ----
    reply,              \* response.choices[0].message.content
    dpc,                \* position of the decoding
    ran,                \* the parsing strategies that were run
    analysis_json,      \* value returned by analyze_resume_with_gpt4o
    record,             \* the ResumeAnalysis built by analyze_resume
    dres,               \* "none", "returned" or "raised"
    \* ---- segmentation (extract_structured_content) ----
    pages,              \* result.pages: each page the sequence of its lines
    spc,                \* position of the segmentation
    structured_sections,\* the sections found
    seg_out,            \* the text returned
    re_sections,        \* the sections found in the text returned
    re_out,             \* the text returned for the text returned
    \* ---- upload (process_file_upload of src/chainlit_app.py) ----
    upc,                \* position of the handler
    tmp_file,           \* the temporary file exists on disk
    upload_msg,         \* the last message sent to the user
    \* ---- calls sharing one analyzer ----
    parked,             \* the locals of the call that is not running
    calls_done          \* number of calls completed on the analyzer

exVars  == <<use_sdk, creds, file_ok, pc, vi, tried_sdk, sdk_calls,
             sdk_returned, seg_calls, rest_runs, submitted,
             operation_location, attempt, polled, last_poll, outcome, error,
             error_details, text>>
decVars == <<reply, dpc, ran, analysis_json, record, dres>>
segVars == <<pages, spc, structured_sections, seg_out, re_sections, re_out>>
upVars  == <<upc, tmp_file, upload_msg>>
shVars  == <<parked, calls_done>>
vars    == <<exVars, decVars, segVars, upVars, shVars>>

(***************************************************************************)
(*                              EXTRACTION                                 *)
(***************************************************************************)

\* the API versions of the documentintelligence endpoint, in the order tried
api_versions == <<"2024-02-29-preview", "2023-07-31", "2022-08-31">>

\* the legacy Form Recognizer endpoint
legacy == "formrecognizer"

\* polling budget
max_attempts == 30

\* the status recorded for a request that got no response: requests.post
\* raised (connection refused, name not resolved, ...)
NoAnswer == 0

\* what a submission can meet: accepted, auth failure, any other HTTP
\* status, or no response at all
SubmitStatuses == {202, 401, 404, NoAnswer}

\* values of the Operation-Location header; "" is a missing header (only an
\* accepted response carries one)
Locations == {"", "opA", "opB"}

\* HTTP statuses a poll can answer
PollHttp == {200, 500}

\* values of the status field of a poll's body
PollStatuses == {"succeeded", "failed", "running", "notStarted", "canceled"}

\* analyzeResult.content of a poll's body; "" when the key is absent (only a
\* succeeded body carries one)
Contents == {"", "resume text", "other text"}

\* what extract_structured_content can hand back on the SDK path
SdkTexts == {"", "sdk text"}

NoPoll == [http |-> 0, status |-> "", content |-> ""]

\* a message naming no API version and no submission status
NoDetails == [versions |-> <<>>, statuses |-> <<>>]

ExIdle ==
    /\ use_sdk = FALSE /\ creds = FALSE /\ file_ok = FALSE
    /\ pc = "idle" /\ vi = 0 /\ tried_sdk = FALSE /\ sdk_calls = 0
    /\ sdk_returned = FALSE /\ seg_calls = 0 /\ rest_runs = 0
    /\ submitted = <<>> /\ operation_location = "" /\ attempt = 0
    /\ polled = {} /\ last_poll = NoPoll
    /\ outcome = "none" /\ error = "" /\ error_details = NoDetails /\ text = ""

\* ResumeAnalyzer.__init__ : use_sdk is the argument and SDK_AVAILABLE and
\* the client construction not raising; the credentials come from the
\* environment.  The extraction call has not started.
ExInit ==
    /\ use_sdk \in BOOLEAN
    /\ creds \in BOOLEAN
    /\ file_ok \in BOOLEAN
    /\ pc = "call" /\ vi = 1 /\ tried_sdk = FALSE /\ sdk_calls = 0
    /\ sdk_returned = FALSE /\ seg_calls = 0 /\ rest_runs = 0
    /\ submitted = <<>> /\ operation_location = "" /\ attempt = 0
    /\ polled = {} /\ last_poll = NoPoll
    /\ outcome = "none" /\ error = "" /\ error_details = NoDetails /\ text = ""

\* raise Exception(...) reaching the caller of extract_text_from_pdf
Raise(kind) ==
    /\ pc' = "done"
    /\ outcome' = "raised"
    /\ error' = kind
    /\ UNCHANGED error_details

\* raise Exception(... error_details): the message names the statuses in d
RaiseDetails(kind, d) ==
    /\ pc' = "done"
    /\ outcome' = "raised"
    /\ error' = kind
    /\ error_details' = d

\* return content
Return(t) ==
    /\ pc' = "done"
    /\ outcome' = "returned"
    /\ text' = t
    /\ UNCHANGED <<error, error_details>>

\* extract_text_from_pdf: choice of the path
Call ==
    /\ pc = "call"
    /\ pc' = IF use_sdk THEN "sdk" ELSE "rest"
    /\ UNCHANGED <<use_sdk, creds, file_ok, vi, tried_sdk, sdk_calls,
                   sdk_returned, seg_calls, rest_runs, submitted,
                   operation_location, attempt, polled, last_poll, outcome,
                   error, error_details, text>>
    /\ UNCHANGED <<decVars, segVars, upVars, shVars>>

\* mutant of CredentialsMissing: the check is never made
CredentialsMissing_Never(c) == FALSE

\* if not self.di_key or not self.di_endpoint, the first test of both paths
CredentialsMissing(c) == ~c

\* mutant of UseSdkAfterFailure: a failed SDK call disables the SDK path,
\* as the failed construction of the client does in __init__
UseSdkAfterFailure_Disabled(u) == FALSE

\* self.use_sdk once the except branch of extract_text_from_pdf has run:
\* the branch does not assign it
UseSdkAfterFailure(u) == u

\* mutant of CatchSdkFailure: the exception of the SDK path reaches the
\* caller
CatchSdkFailure_Propagates ==
    /\ Raise("sdk")
    /\ UNCHANGED <<use_sdk, sdk_returned, seg_calls, text>>

\* the except branch of extract_text_from_pdf: the REST path follows
CatchSdkFailure ==
    /\ pc' = "rest"
    /\ use_sdk' = UseSdkAfterFailure(use_sdk)
    /\ UNCHANGED <<sdk_returned, seg_calls, outcome, error, error_details, text>>

\* extract_text_from_pdf_sdk, called inside the try of extract_text_from_pdf,
\* up to the request of begin_analyze_document: any exception of it is
\* caught and the REST path follows.  begin_ok, the request is accepted and
\* a poller comes back; the call then waits for the result of the poller.
SdkPath(begin_ok) ==
    /\ pc = "sdk"
    /\ tried_sdk' = TRUE
    /\ IF CredentialsMissing(creds) \/ ~file_ok
         THEN \* raised before begin_analyze_document
              /\ CatchSdkFailure
              /\ UNCHANGED sdk_calls
         ELSE /\ sdk_calls' = sdk_calls + 1
              /\ IF begin_ok
                   THEN /\ pc' = "sdk_wait"
                        /\ UNCHANGED <<use_sdk, sdk_returned, seg_calls,
                                       outcome, error, error_details, text>>
                   ELSE CatchSdkFailure
    /\ UNCHANGED <<creds, file_ok, vi, rest_runs, submitted,
                   operation_location, attempt, polled, last_poll>>
    /\ UNCHANGED <<decVars, segVars, upVars, shVars>>

\* the rest of extract_text_from_pdf_sdk: result = poller.result(), then
\* extract_structured_content(result) and the return of its text.  ok, the
\* poller delivers a result and the segmentation of it does not raise; t,
\* the text of the segmentation.
SdkResult(ok, t) ==
    /\ pc = "sdk_wait"
    /\ IF ok
         THEN /\ Return(t) /\ sdk_returned' = TRUE
              /\ seg_calls' = seg_calls + 1
              /\ UNCHANGED use_sdk
         ELSE CatchSdkFailure
    /\ UNCHANGED <<creds, file_ok, vi, tried_sdk, sdk_calls, rest_runs,
                   submitted, operation_location, attempt, polled, last_poll>>
    /\ UNCHANGED <<decVars, segVars, upVars, shVars>>

\* extract_text_from_pdf_rest up to the version loop
RestStart ==
    /\ pc = "rest"
    /\ rest_runs' = rest_runs + 1
    /\ IF CredentialsMissing(creds) THEN Raise("credentials")
       ELSE IF ~file_ok THEN Raise("file")
       ELSE /\ pc' = "submit"
            /\ UNCHANGED <<outcome, error, error_details>>
    /\ UNCHANGED <<use_sdk, creds, file_ok, vi, tried_sdk, sdk_calls,
                   sdk_returned, seg_calls, submitted, operation_location, attempt, polled,
                   last_poll, text>>
    /\ UNCHANGED <<decVars, segVars, upVars, shVars>>

\* error_details: the status (and the body) of the response the loop left;
\* no API version is named
ErrorDetails(response) == [versions |-> <<>>, statuses |-> <<response.status>>]

\* the code after the version loop, run on the response the loop left
AfterSubmit(response) ==
    IF response.status # 202
      THEN /\ RaiseDetails(IF response.status = 401 THEN "auth" ELSE "start",
                           ErrorDetails(response))
           /\ UNCHANGED operation_location
      ELSE IF response.location = ""
      THEN /\ Raise("no_location")
           /\ UNCHANGED operation_location
      ELSE /\ pc' = "poll"
           /\ operation_location' = response.location
           /\ UNCHANGED <<outcome, error, error_details>>

\* mutants of BreaksLoop: a 401 leaves the loop as well; nothing leaves it
BreaksLoop_On401(status) == status \in {202, 401}
BreaksLoop_Never(status) == FALSE

\* the loop's reaction to a version's status: TRUE when the loop is left
BreaksLoop(status) == status = 202

\* requests.post raised instead of answering: no statement of the loop
\* catches it, the except of extract_text_from_pdf_rest re-raises it
PostRaises(status) == status = NoAnswer

\* one iteration of for api_version in api_versions
SubmitVersion(status, loc) ==
    /\ pc = "submit"
    /\ vi <= Len(api_versions)
    /\ LET response == [tier |-> api_versions[vi], status |-> status,
                        location |-> loc]
       IN /\ submitted' = Append(submitted, response)
          /\ IF PostRaises(status)
               THEN \* the remaining versions and the legacy endpoint are
                    \* not submitted to
                    /\ Raise("network")
                    /\ UNCHANGED <<vi, operation_location>>
             ELSE IF BreaksLoop(status)
               THEN /\ AfterSubmit(response)
                    /\ UNCHANGED vi
               ELSE /\ vi' = vi + 1
                    /\ pc' = IF vi = Len(api_versions) THEN "legacy" ELSE "submit"
                    /\ UNCHANGED <<operation_location, outcome, error, error_details>>
    /\ UNCHANGED <<use_sdk, creds, file_ok, tried_sdk, sdk_calls, sdk_returned,
                   seg_calls,
                   rest_runs, attempt, polled, last_poll, text>>
    /\ UNCHANGED <<decVars, segVars, upVars, shVars>>

\* the else branch of the for loop: the legacy Form Recognizer endpoint
SubmitLegacy(status, loc) ==
    /\ pc = "legacy"
    /\ LET response == [tier |-> legacy, status |-> status, location |-> loc]
       IN /\ submitted' = Append(submitted, response)
          /\ IF PostRaises(status)
               THEN Raise("network") /\ UNCHANGED operation_location
               ELSE AfterSubmit(response)
    /\ UNCHANGED <<use_sdk, creds, file_ok, vi, tried_sdk, sdk_calls,
                   sdk_returned, seg_calls, rest_runs, attempt, polled, last_poll, text>>
    /\ UNCHANGED <<decVars, segVars, upVars, shVars>>

\* mutant of MayPoll: one poll too many
MayPoll_OffByOne(n) == n <= max_attempts

\* the loop's bound: TRUE when another poll may be issued
MayPoll(n) == n < max_attempts

\* mutant of KeepsPolling: every status but succeeded and failed continues
KeepsPolling_Unknown(status) == status \notin {"succeeded", "failed"}

\* elif status in ["running", "notStarted"]: continue
KeepsPolling(status) == status \in {"running", "notStarted"}

\* mutant of PollRefused: the HTTP status of a poll is not looked at
PollRefused_Never(http) == FALSE

\* if result_response.status_code != 200
PollRefused(http) == http # 200

\* one iteration of for attempt in range(max_attempts); the raise after
\* the loop is part of the iteration that exhausts the range
\* (a requests.get that raises, or a body that is not JSON, ends extraction
\* through the same except as a refused poll does and is not told apart
\* from it: http stands for it as a status other than 200)
Poll(http, status, content) ==
    /\ pc = "poll"
    /\ MayPoll(attempt)
    /\ attempt' = attempt + 1
    /\ polled' = polled \cup {operation_location}
    /\ last_poll' = [http |-> http, status |-> status, content |-> content]
    /\ IF PollRefused(http) THEN Raise("poll_http") /\ UNCHANGED text
       ELSE IF status = "succeeded" THEN Return(content)
       ELSE IF status = "failed" THEN Raise("failed") /\ UNCHANGED text
       ELSE IF KeepsPolling(status)
         THEN IF MayPoll(attempt + 1)
                THEN UNCHANGED <<pc, outcome, error, error_details, text>>
                ELSE Raise("timeout") /\ UNCHANGED text
       ELSE Raise("unknown_status") /\ UNCHANGED text
    /\ UNCHANGED <<use_sdk, creds, file_ok, vi, tried_sdk, sdk_calls,
                   sdk_returned, seg_calls, rest_runs, submitted, operation_location>>
    /\ UNCHANGED <<decVars, segVars, upVars, shVars>>

\* the responses the service can give: only an accepted submission carries
\* an Operation-Location, only a succeeded poll carries a content
TryVersion ==
    \E s \in SubmitStatuses, l \in Locations :
        (s = 202 \/ l = "") /\ SubmitVersion(s, l)

TryLegacy ==
    \E s \in SubmitStatuses, l \in Locations :
        (s = 202 \/ l = "") /\ SubmitLegacy(s, l)

PollOnce ==
    \E h \in PollHttp, s \in PollStatuses, c \in Contents :
        (s = "succeeded" \/ c = "") /\ Poll(h, s, c)

ExNext ==
    \/ Call
    \/ \E b \in BOOLEAN : SdkPath(b)
    \/ \E ok \in BOOLEAN, t \in SdkTexts : SdkResult(ok, t)
    \/ RestStart
    \/ TryVersion
    \/ TryLegacy
    \/ PollOnce

(***************************************************************************)
(*                               DECODING                                  *)
(* A reply is a sequence of tokens; its text is their concatenation.       *)
(* Scores are in hundredths (0.42 is 42).  A JSON value is a record        *)
(* [kind, items]: kind "dict" with items the mapping, "none" for null      *)
(* (Python None), "int" for a number.                                      *)
(***************************************************************************)

\* whitespace: the newline and the blank
NL == "\n"
SP == " "
\* prose around the payload
Prose == "Sure!"
\* the opening fence of a json block (three backticks and the word json) and
\* the plain fence (three backticks)
FenceJson == "<fence>json"
Fence == "<fence>"
\* stray braces
LBrace == "{"
RBrace == "}"
\* the JSON literal null
Null == "null"
\* complete objects
ObjFull == "{\"skills\": [], \"role_match_score\": 0.42, \"strengths\": [\"x\"], \"gaps\": [], \"recommendations\": [], \"summary\": \"ok\"}"
ObjSkill == "{\"skills\": [{\"skill\": \"Python\", \"relevance_score\": 0.9, \"category\": \"technical\"}], \"role_match_score\": 0.8, \"strengths\": [], \"gaps\": [\"y\"], \"recommendations\": [\"z\"], \"summary\": \"fit\"}"
ObjPart == "{\"role_match_score\": 0.9}"
ObjBadSkill == "{\"skills\": [1]}"
ObjNull == "{\"summary\": null}"

ObjTokens == {ObjFull, ObjSkill, ObjPart, ObjBadSkill, ObjNull}
Tokens == {NL, Prose, FenceJson, Fence, LBrace, RBrace, Null} \cup ObjTokens

JDict(d) == [kind |-> "dict", items |-> d]
JNone == [kind |-> "none", items |-> <<>>]
JInt == [kind |-> "int", items |-> <<>>]
\* Python None as the value of a key whose values are strings
PyNone == "<None>"

\* the value each object token denotes
ObjValue(tok) ==
    CASE tok = ObjFull ->
           JDict([skills |-> <<>>, role_match_score |-> 42,
                  strengths |-> <<"x">>, gaps |-> <<>>,
                  recommendations |-> <<>>, summary |-> "ok"])
      [] tok = ObjSkill ->
           JDict([skills |-> <<JDict([skill |-> "Python", relevance_score |-> 90,
                                      category |-> "technical"])>>,
                  role_match_score |-> 80, strengths |-> <<>>,
                  gaps |-> <<"y">>, recommendations |-> <<"z">>,
                  summary |-> "fit"])
      [] tok = ObjPart -> JDict([role_match_score |-> 90])
      [] tok = ObjBadSkill -> JDict([skills |-> <<JInt>>])
      [] tok = ObjNull -> JDict([summary |-> PyNone])

\* mutant of FallbackJson: a fallback without score and summary
FallbackJson_Blank ==
    JDict([skills |-> <<>>, role_match_score |-> 0, strengths |-> <<>>,
           gaps |-> <<>>, recommendations |-> <<>>, summary |-> ""])

\* mutant of FallbackJson: two skills and one strength, gap and
\* recommendation each
FallbackJson_TwoSkills ==
    JDict([skills |-> << JDict([skill |-> "Communication", relevance_score |-> 70,
                                category |-> "soft"]),
                         JDict([skill |-> "Technical Skills", relevance_score |-> 60,
                                category |-> "technical"]) >>,
           role_match_score |-> 65,
           strengths |-> <<"Professional experience">>,
           gaps |-> <<"Analysis incomplete due to response parsing issues">>,
           recommendations |-> <<"Review and update resume format">>,
           summary |-> "Candidate shows potential but full analysis was limited due to technical issues."])

\* the record of Strategy 4
FallbackJson ==
    JDict([skills |-> << JDict([skill |-> "Communication", relevance_score |-> 70,
                                category |-> "soft"]),
                         JDict([skill |-> "Problem Solving", relevance_score |-> 80,
                                category |-> "soft"]),
                         JDict([skill |-> "Technical Skills", relevance_score |-> 60,
                                category |-> "technical"]) >>,
           role_match_score |-> 65,
           strengths |-> <<"Professional experience", "Educational background">>,
           gaps |-> <<"Analysis incomplete due to response parsing issues">>,
           recommendations |-> <<"Review and update resume format",
                                 "Consider professional resume review">>,
           summary |-> "Candidate shows potential but full analysis was limited due to technical issues."])

IsWs(tok) == tok \in {NL, SP}

\* str.strip(): leading and trailing whitespace removed
RECURSIVE StripLeft(_)
StripLeft(s) ==
    IF s # <<>> /\ IsWs(Head(s)) THEN StripLeft(Tail(s)) ELSE s

RECURSIVE StripRight(_)
StripRight(s) ==
    IF s # <<>> /\ IsWs(s[Len(s)]) THEN StripRight(SubSeq(s, 1, Len(s) - 1)) ELSE s

Strip(s) == StripLeft(StripRight(s))


\* json.loads: [ok, val]; ok FALSE is JSONDecodeError.  Whitespace between
\* JSON tokens is insignificant; the text is a value when it is one object
\* token, the literal null, or a brace pair (the empty object).
Loads(s) ==
    LET t == SelectSeq(s, LAMBDA tok : ~IsWs(tok))
    IN IF Len(t) = 1 /\ t[1] \in ObjTokens
         THEN [ok |-> TRUE, val |-> ObjValue(t[1])]
       ELSE IF t = <<Null>>
         THEN [ok |-> TRUE, val |-> JNone]
       ELSE IF t = <<LBrace, RBrace>>
         THEN [ok |-> TRUE, val |-> JDict(<<>>)]
       ELSE [ok |-> FALSE, val |-> JNone]

\* Python truth value of a parsed value (if not analysis_json)
Truthy(v) == v.kind = "dict" /\ DOMAIN v.items # {}

\* str.find(tok-set, start): the least index >= start holding one of toks,
\* 0 when there is none (-1 in Python)
FindFrom(s, toks, start) ==
    LET hits == {i \in start..Len(s) : s[i] \in toks}
    IN IF hits = {} THEN 0 ELSE CHOOSE i \in hits : \A j \in hits : i <= j

\* the last index holding one of toks, 0 when there is none
FindLast(s, toks) ==
    LET hits == {i \in 1..Len(s) : s[i] \in toks}
    IN IF hits = {} THEN 0 ELSE CHOOSE i \in hits : \A j \in hits : i >= j

\* tokens whose text holds "the fence", "{", "}"
HasFence == {Fence, FenceJson}
HasOpen  == {LBrace} \cup ObjTokens
HasClose == {RBrace} \cup ObjTokens

\* Strategy 1: json.loads(response_content)
Direct(content) == Loads(content)

\* mutant of ClosingFence: the search starts at the beginning of the text
ClosingFence_FromStart(content, json_start) == FindFrom(content, HasFence, 1)

\* the closing fence Strategy 2 looks for after the opening json fence
ClosingFence(content, json_start) == FindFrom(content, HasFence, json_start)

\* Strategy 2: the span after the first the json fence up to the next the fence.
\* json_start is the position after the fence; a closing fence found right
\* there (json_end = json_start) or not found gives no span.  A span that
\* does not parse leaves analysis_json None.
Fenced(content) ==
    LET json_start == FindFrom(content, {FenceJson}, 1) + 1
        json_end   == ClosingFence(content, json_start)
    IN IF json_end > json_start
         THEN LET r == Loads(Strip(SubSeq(content, json_start, json_end - 1)))
              IN IF r.ok THEN r.val ELSE JNone
         ELSE JNone

\* Strategy 3: re.search({.*}, DOTALL): from the first brace opened to
\* the last brace closed after it; prev is kept when there is no match or
\* the span does not parse.
Greedy(content, prev) ==
    LET first == FindFrom(content, HasOpen, 1)
        last  == FindLast(content, HasClose)
    IN IF first > 0 /\ last >= first
         THEN LET r == Loads(SubSeq(content, first, last))
              IN IF r.ok THEN r.val ELSE prev
         ELSE prev

\* analyze_resume_with_gpt4o from the reply on: [json, ran]
ParseReplyText(text_in) ==
    LET response_content == Strip(text_in)
        s1 == Direct(response_content)
    IN IF s1.ok
         THEN [json |-> s1.val, ran |-> {"direct"}]
         ELSE LET has2 == \E i \in 1..Len(response_content) :
                             response_content[i] = FenceJson
                  a2 == IF has2 THEN Fenced(response_content) ELSE JNone
                  run3 == ~Truthy(a2)
                  a3 == IF run3 THEN Greedy(response_content, a2) ELSE a2
                  run4 == ~Truthy(a3)
                  a4 == IF run4 THEN FallbackJson ELSE a3
              IN [json |-> a4,
                  ran |-> {"direct"}
                          \cup (IF has2 THEN {"fenced"} ELSE {})
                          \cup (IF run3 THEN {"greedy"} ELSE {})
                          \cup (IF run4 THEN {"default"} ELSE {})]

\* dict.get(key, default)
Get(d, key, default) == IF key \in DOMAIN d THEN d[key] ELSE default

\* SkillMatch(skill=skill["skill"], ...) succeeds on a dict with the 3 keys
SkillOk(e) ==
    e.kind = "dict" /\ {"skill", "relevance_score", "category"} \subseteq DOMAIN e.items

SkillMatch(e) ==
    [skill |-> e.items["skill"], relevance_score |-> e.items["relevance_score"],
     category |-> e.items["category"]]

\* analyze_resume, Step 3: TRUE when it raises (gpt_analysis has no get, or a
\* skill entry cannot be indexed by the three keys)
BuildRaises(j) ==
    \/ j.kind # "dict"
    \/ LET sk == Get(j.items, "skills", <<>>)
       IN \E i \in 1..Len(sk) : ~SkillOk(sk[i])

\* mutant of ScoreOf: the score is read under another key
ScoreOf_WrongKey(d) == Get(d, "match_score", 0)

\* role_match_score=gpt_analysis.get("role_match_score", 0.0)
ScoreOf(d) == Get(d, "role_match_score", 0)

\* analyze_resume, Step 3: the ResumeAnalysis
BuildRecord(extracted, j) ==
    LET d == j.items
        sk == Get(d, "skills", <<>>)
    IN [extracted_text |-> extracted,
        skills |-> [i \in 1..Len(sk) |-> SkillMatch(sk[i])],
        role_match_score |-> ScoreOf(d),
        strengths |-> Get(d, "strengths", <<>>),
        gaps |-> Get(d, "gaps", <<>>),
        recommendations |-> Get(d, "recommendations", <<>>),
        summary |-> Get(d, "summary", "")]

\* longest reply enumerated
MaxLen == 4

RECURSIVE SeqsUpTo(_, _)
SeqsUpTo(S, n) ==
    IF n = 0 THEN {<<>>}
    ELSE LET shorter == SeqsUpTo(S, n - 1)
         IN shorter \cup {Append(q, x) : q \in {r \in shorter : Len(r) = n - 1}, x \in S}

\* replies longer than MaxLen: prose around a fenced payload
ExampleReplies ==
    { <<Prose, FenceJson, NL, ObjFull, NL, Fence, Prose>>,
      <<Prose, FenceJson, NL, ObjSkill, NL, Fence, NL, Prose>>,
      <<Prose, FenceJson, ObjFull, Fence, Prose, LBrace>>,
      <<Prose, FenceJson, LBrace, RBrace, Fence, Prose, ObjPart>> }

Replies == SeqsUpTo(Tokens, MaxLen) \cup ExampleReplies

DecIdle ==
    /\ reply = <<>> /\ dpc = "idle" /\ ran = {} /\ analysis_json = JNone
    /\ record = <<>> /\ dres = "none"

DecInit ==
    /\ reply \in Replies
    /\ dpc = "reply" /\ ran = {} /\ analysis_json = JNone
    /\ record = <<>> /\ dres = "none"

\* analyze_resume_with_gpt4o once the reply is in
ParseReply ==
    /\ dpc = "reply"
    /\ LET r == ParseReplyText(reply)
       IN /\ analysis_json' = r.json
          /\ ran' = r.ran
    /\ dpc' = "parsed"
    /\ UNCHANGED <<reply, record, dres>>
    /\ UNCHANGED <<exVars, segVars, upVars, shVars>>

\* analyze_resume, Step 3
Build ==
    /\ dpc = "parsed"
    /\ dpc' = "done"
    /\ IF BuildRaises(analysis_json)
         THEN /\ dres' = "raised"
              /\ UNCHANGED record
         ELSE /\ dres' = "returned"
              /\ record' = BuildRecord("resume text", analysis_json)
    /\ UNCHANGED <<reply, ran, analysis_json>>
    /\ UNCHANGED <<exVars, segVars, upVars, shVars>>

DecNext == ParseReply \/ Build

(***************************************************************************)
(*                             SEGMENTATION                                *)
(***************************************************************************)

(* A line is a sequence of tokens: words, separated by the blank SP.  The  *)
(* texts built from lines are token sequences too.                         *)

\* the words of the lines, and their upper case
Words == {"Skills", "Jane", "Doe", "Built", "tools", "tools.", "for", "data",
          "teams", "teams.", "teams:", "-"}

\* str.upper() of one token
UpperTok(w) ==
    CASE w = "Skills" -> "SKILLS" [] w = "Jane" -> "JANE" [] w = "Doe" -> "DOE"
      [] w = "Built" -> "BUILT" [] w = "tools" -> "TOOLS" [] w = "tools." -> "TOOLS."
      [] w = "for" -> "FOR" [] w = "data" -> "DATA" [] w = "teams" -> "TEAMS"
      [] w = "teams." -> "TEAMS." [] w = "teams:" -> "TEAMS:" [] OTHER -> w

\* str.upper()
Upper(s) == [i \in 1..Len(s) |-> UpperTok(s[i])]

\* the tokens whose lower case holds one of section_keywords ('skills');
\* no other word of Words holds a keyword, and no two of them joined by a
\* blank form one
KeywordToks == {"Skills", "SKILLS"}

\* the tokens ending with '.', ending with ':', starting with a bullet or a dash
PeriodEnd == {"tools.", "TOOLS.", "teams.", "TEAMS."}
ColonEnd  == {"teams:", "TEAMS:"}
BulletStart == {"-"}

\* the decoration of a header
Deco == "==="

\* line_text.split()
Split(s) == SelectSeq(s, LAMBDA tok : ~IsWs(tok))

\* is_section_header
IsSectionHeader(line_text) ==
    \E i \in 1..Len(line_text) : line_text[i] \in KeywordToks

\* the most words a header-like line has
MaxHeaderWords == 4

\* is_likely_header
IsLikelyHeader(line_text) ==
    /\ Len(Split(line_text)) <= MaxHeaderWords
    /\ line_text[Len(line_text)] \notin PeriodEnd
    /\ line_text[1] \notin BulletStart

\* the condition of the header branch, on a non-empty stripped line
IsHeader(line_text) == IsSectionHeader(line_text) \/ IsLikelyHeader(line_text)

\* " ".join(current_paragraph)
RECURSIVE JoinWith(_, _)
JoinWith(seqs, sep) ==
    IF seqs = <<>> THEN <<>>
    ELSE IF Len(seqs) = 1 THEN seqs[1]
    ELSE seqs[1] \o <<sep>> \o JoinWith(Tail(seqs), sep)

\* the paragraph is longer than this: it is flushed
ParagraphCap == 3

\* current_section += " " + " ".join(current_paragraph), with the trailing
\* newline when nl; <<>> is None, which is left alone
Flush(cs, cp, nl) ==
    IF cs # <<>>
      THEN cs \o <<SP>> \o JoinWith(cp, SP) \o (IF nl THEN <<NL>> ELSE <<>>)
      ELSE cs

\* the flush made when a section ends (at a header, at the end of a page):
\* only when there is a section and a pending paragraph
FlushPending(cs, cp) ==
    IF cs # <<>> /\ cp # <<>> THEN Flush(cs, cp, FALSE) ELSE cs

\* structured_sections.append(current_section) when there is one
Emit(ss, cs) == IF cs # <<>> THEN Append(ss, cs) ELSE ss

\* mutant of NewSection: the header keeps the case of the line
NewSection_SameCase(line_text) ==
    <<NL, NL, Deco, SP>> \o line_text \o <<SP, Deco, NL>>

\* the new section a header line opens
NewSection(line_text) ==
    <<NL, NL, Deco, SP>> \o Upper(line_text) \o <<SP, Deco, NL>>

\* the body of `for line in page.lines`, on the state
\* [cs: current_section, cp: current_paragraph, ss: structured_sections]
LineStep(st, line) ==
    LET line_text == Strip(line)
    IN IF line_text = <<>>
         THEN \* an empty line ends the pending paragraph
              [cs |-> IF st.cp # <<>> THEN Flush(st.cs, st.cp, FALSE) ELSE st.cs,
               cp |-> <<>>, ss |-> st.ss]
       ELSE IF IsHeader(line_text)
         THEN [cs |-> NewSection(line_text), cp |-> <<>>,
               ss |-> Emit(st.ss, FlushPending(st.cs, st.cp))]
       ELSE LET para == Append(st.cp, line_text)
            IN IF line_text[Len(line_text)] \in PeriodEnd \cup ColonEnd
                  \/ Len(para) > ParagraphCap
                 THEN [cs |-> Flush(st.cs, para, TRUE), cp |-> <<>>, ss |-> st.ss]
                 ELSE [cs |-> st.cs, cp |-> para, ss |-> st.ss]

RECURSIVE LinesFrom(_, _, _)
LinesFrom(st, lines, i) ==
    IF i > Len(lines) THEN st ELSE LinesFrom(LineStep(st, lines[i]), lines, i + 1)

\* one page: its lines, then the last section; a page without lines is skipped
PageStep(ss, lines) ==
    IF lines = <<>> THEN ss
    ELSE LET st == LinesFrom([cs |-> <<>>, cp |-> <<>>, ss |-> ss], lines, 1)
         IN Emit(st.ss, FlushPending(st.cs, st.cp))

RECURSIVE PagesFrom(_, _, _)
PagesFrom(ss, pgs, p) ==
    IF p > Len(pgs) THEN ss ELSE PagesFrom(PageStep(ss, pgs[p]), pgs, p + 1)

\* the sections of a document
Sections(pgs) == PagesFrom(<<>>, pgs, 1)

\* result.content: the lines of the document, one per line of text
RECURSIVE AllLines(_)
AllLines(pgs) == IF pgs = <<>> THEN <<>> ELSE Head(pgs) \o AllLines(Tail(pgs))

Content(pgs) == JoinWith(AllLines(pgs), NL)

\* mutant of FinalText: the sections are joined even when there is none
FinalText_NoFallback(ss, content) == JoinWith(ss, NL)

\* the text returned: the sections when some were found, else the content
FinalText(ss, content) ==
    IF ss # <<>> THEN JoinWith(ss, NL) ELSE content

\* the lines a document is made of
LineBlank    == <<SP>>
LineKeyword  == <<"Skills">>
LineName     == <<SP, "Jane", SP, "Doe">>
LineSentence == <<"Built", SP, "tools.">>
LineLong     == <<"Built", SP, "tools", SP, "for", SP, "data", SP, "teams">>
LineColon    == <<"Built", SP, "tools", SP, "for", SP, "data", SP, "teams:">>
LineBullet   == <<"-", SP, "Built", SP, "tools">>
LineKeySent  == <<"Built", SP, "tools", SP, "for", SP, "Skills", SP, "teams.">>

Lines == {<<>>, LineBlank, LineKeyword, LineName, LineSentence, LineLong,
          LineColon, LineBullet, LineKeySent}

\* most lines of an enumerated document
MaxLines == 3

\* documents longer than MaxLines: a paragraph reaching the cap, and text
\* before the first header
ExampleDocs ==
    { <<LineKeyword, LineLong, LineBullet, LineLong, LineBullet, LineLong>>,
      <<LineLong, LineBullet, LineLong, LineBullet, LineKeyword, LineLong>>,
      <<LineLong, LineBullet, LineLong, LineBullet, LineLong>> }

Docs == SeqsUpTo(Lines, MaxLines) \cup ExampleDocs

\* a document on one page, or cut in two pages
Paginations(doc) ==
    {<<doc>>} \cup {<<SubSeq(doc, 1, b), SubSeq(doc, b + 1, Len(doc))>> : b \in 0..Len(doc)}

SegIdle ==
    /\ pages = <<>> /\ spc = "idle"
    /\ structured_sections = <<>> /\ seg_out = <<>>
    /\ re_sections = <<>> /\ re_out = <<>>

SegInit ==
    /\ \E doc \in Docs : pages \in Paginations(doc)
    /\ spc = "result"
    /\ structured_sections = <<>> /\ seg_out = <<>>
    /\ re_sections = <<>> /\ re_out = <<>>

\* extract_structured_content
Segment ==
    /\ spc = "result"
    /\ spc' = "done"
    /\ LET ss == Sections(pages)
       IN /\ structured_sections' = ss
          /\ seg_out' = FinalText(ss, Content(pages))
    /\ UNCHANGED <<pages, re_sections, re_out>>
    /\ UNCHANGED <<exVars, decVars, upVars, shVars>>

\* str.split('\n'): the lines of a text
RECURSIVE SplitLines(_)
SplitLines(s) ==
    LET i == FindFrom(s, {NL}, 1)
    IN IF i = 0 THEN <<s>>
       ELSE <<SubSeq(s, 1, i - 1)>> \o SplitLines(SubSeq(s, i + 1, Len(s)))

\* extract_structured_content on the text it returned: a result of one
\* page whose lines are the lines of that text and whose content is it
Resegment ==
    /\ spc = "done"
    /\ spc' = "again"
    /\ LET ss == Sections(<<SplitLines(seg_out)>>)
       IN /\ re_sections' = ss
          /\ re_out' = FinalText(ss, seg_out)
    /\ UNCHANGED <<pages, structured_sections, seg_out>>
    /\ UNCHANGED <<exVars, decVars, upVars, shVars>>

SegNext == Segment \/ Resegment

(***************************************************************************)
(*                                UPLOAD                                   *)
(* The handlers of src/chainlit_app.py: start (on_chat_start), main        *)
(* (on_message) and process_file_upload, the handler of a message with     *)
(* attachments.  Each await of cl.Message(...).send() ends a step:         *)
(* upload_msg is the last message sent to the user, upc the position of    *)
(* the handler.  Between the writing of the temporary file and the code    *)
(* after analyzer.analyze_resume runs the extraction modelled above, on    *)
(* the temporary file.  The sends outside the try of process_file_upload   *)
(* are taken to succeed; a send inside the try may raise, and the except   *)
(* branch then sends the error message.                                    *)
(***************************************************************************)

UpIdle == upc = "idle" /\ tmp_file = FALSE /\ upload_msg = "none"

\* a chat session opens: the module-level analyzer is constructed, its
\* extraction not started; the temporary file, once written, can be opened
UpInit ==
    /\ use_sdk \in BOOLEAN
    /\ creds \in BOOLEAN
    /\ file_ok = TRUE
    /\ pc = "idle" /\ vi = 1 /\ tried_sdk = FALSE /\ sdk_calls = 0
    /\ sdk_returned = FALSE /\ seg_calls = 0 /\ rest_runs = 0
    /\ submitted = <<>> /\ operation_location = "" /\ attempt = 0
    /\ polled = {} /\ last_poll = NoPoll
    /\ outcome = "none" /\ error = "" /\ error_details = NoDetails /\ text = ""
    /\ upc = "start" /\ tmp_file = FALSE /\ upload_msg = "none"

\* a step of a handler that sends the message m and moves to the position p
\* without touching the temporary file or the extraction
SendOnly(m, p) ==
    /\ upload_msg' = m
    /\ upc' = p
    /\ UNCHANGED tmp_file
    /\ UNCHANGED <<exVars, decVars, segVars, shVars>>

\* start: the welcome message; a message of the user is awaited next
ChatStart ==
    /\ upc = "start"
    /\ SendOnly("welcome", "message")

\* main, for a message without attachments
MainTextOnly ==
    /\ upc = "message"
    /\ SendOnly("upload wanted", "done")

\* main, for a message with attachments: process_file_upload up to the
\* first message it sends.  has_pdf, one attachment is a PDF; has_role,
\* extract_target_role found a role
ReceiveUpload(has_pdf, has_role) ==
    /\ upc = "message"
    /\ IF ~has_pdf THEN SendOnly("not a pdf", "done")
       ELSE IF ~has_role THEN SendOnly("role wanted", "done")
       ELSE SendOnly("analyzing", "reading")

\* process_file_upload after the processing message, up to the call of
\* analyzer.analyze_resume: has_content, the attachment has a content that
\* is not empty
SaveUpload(has_content) ==
    /\ upc = "reading"
    /\ IF ~has_content
         THEN \* raised inside the try, before the file is written
              /\ upc' = "done" /\ upload_msg' = "error"
              /\ UNCHANGED <<tmp_file, pc>>
         ELSE \* NamedTemporaryFile(delete=False), then analyze_resume starts
              /\ tmp_file' = TRUE
              /\ upc' = "analyzing"
              /\ pc' = "call"
              /\ UNCHANGED upload_msg
    /\ UNCHANGED <<use_sdk, creds, file_ok, vi, tried_sdk, sdk_calls,
                   sdk_returned, seg_calls, rest_runs, submitted,
                   operation_location, attempt, polled, last_poll, outcome,
                   error, error_details, text>>
    /\ UNCHANGED <<decVars, segVars, shVars>>

\* os.unlink(tmp_file_path) is the statement after analyze_resume inside the
\* try: it is run when analyze_resume did not raise
UnlinkReached(raised) == ~raised

\* process_file_upload once extract_text_from_pdf is over, up to its next
\* message: gpt_ok, the remainder of analyze_resume (the model call and the
\* record) does not raise.  When it raised the except branch sends the
\* error; otherwise the file is unlinked and the results are sent next.
FinishUpload(gpt_ok) ==
    /\ upc = "analyzing"
    /\ pc = "done"
    /\ LET raised == outcome = "raised" \/ ~gpt_ok
       IN /\ tmp_file' = IF UnlinkReached(raised) THEN FALSE ELSE tmp_file
          /\ upc' = IF raised THEN "done" ELSE "sending"
          /\ upload_msg' = IF raised THEN "error" ELSE upload_msg
    /\ UNCHANGED <<exVars, decVars, segVars, shVars>>

\* a send inside the try, from the position p: ok, the message m is built
\* and sent and the handler moves to q; otherwise the except branch sends
\* the error and the handler ends
SendInTry(p, ok, m, q) ==
    /\ upc = p
    /\ IF ok THEN SendOnly(m, q) ELSE SendOnly("error", "done")

\* the message of format_analysis_results
SendResults(ok) == SendInTry("sending", ok, "results", "breakdown")

\* send_detailed_breakdown, its first message: has_recs, the list
\* analysis.recommendations is not empty and a second message follows
SendSkills(ok, has_recs) ==
    SendInTry("breakdown", ok, "skills",
              IF has_recs THEN "recommending" ELSE "done")

\* send_detailed_breakdown, its second message
SendRecommendations(ok) ==
    SendInTry("recommending", ok, "recommendations", "done")

UpNext ==
    \/ ChatStart
    \/ MainTextOnly
    \/ \E p \in BOOLEAN, r \in BOOLEAN : ReceiveUpload(p, r)
    \/ \E c \in BOOLEAN : SaveUpload(c)
    \/ ExNext
    \/ \E g \in BOOLEAN : FinishUpload(g)
    \/ \E k \in BOOLEAN : SendResults(k)
    \/ \E k \in BOOLEAN, h \in BOOLEAN : SendSkills(k, h)
    \/ \E k \in BOOLEAN : SendRecommendations(k)

(***************************************************************************)
(*                    CALLS SHARING ONE ANALYZER                           *)
(* Two calls of extract_text_from_pdf on one ResumeAnalyzer (the module-   *)
(* level analyzer of src/chainlit_app.py), interleaved at their network    *)
(* I/O, each followed by later calls.  The extraction variables hold the   *)
(* locals of the running call, parked those of the other one; use_sdk and  *)
(* creds are the attributes of the analyzer, shared by both.               *)
(***************************************************************************)

\* the argument and the locals of the running call
Frame ==
    [file_ok |-> file_ok, pc |-> pc, vi |-> vi, tried_sdk |-> tried_sdk,
     sdk_calls |-> sdk_calls, sdk_returned |-> sdk_returned,
     seg_calls |-> seg_calls, rest_runs |-> rest_runs, submitted |-> submitted,
     operation_location |-> operation_location, attempt |-> attempt,
     polled |-> polled, last_poll |-> last_poll, outcome |-> outcome,
     error |-> error, error_details |-> error_details, text |-> text]

\* a call that has not started, on a file that can be opened or not
FreshFrame(f) ==
    [file_ok |-> f, pc |-> "call", vi |-> 1, tried_sdk |-> FALSE,
     sdk_calls |-> 0, sdk_returned |-> FALSE, seg_calls |-> 0, rest_runs |-> 0,
     submitted |-> <<>>, operation_location |-> "", attempt |-> 0,
     polled |-> {}, last_poll |-> NoPoll, outcome |-> "none", error |-> "",
     error_details |-> NoDetails, text |-> ""]

\* the locals of the call fr become those of the running call
Resume(fr) ==
    /\ file_ok' = fr.file_ok /\ pc' = fr.pc /\ vi' = fr.vi
    /\ tried_sdk' = fr.tried_sdk /\ sdk_calls' = fr.sdk_calls
    /\ sdk_returned' = fr.sdk_returned /\ seg_calls' = fr.seg_calls
    /\ rest_runs' = fr.rest_runs /\ submitted' = fr.submitted
    /\ operation_location' = fr.operation_location /\ attempt' = fr.attempt
    /\ polled' = fr.polled /\ last_poll' = fr.last_poll
    /\ outcome' = fr.outcome /\ error' = fr.error
    /\ error_details' = fr.error_details /\ text' = fr.text

\* most calls completed before a later one is started
MaxCalls == 2

ShIdle == parked = [FreshFrame(FALSE) EXCEPT !.pc = "idle"] /\ calls_done = 0

\* ResumeAnalyzer.__init__, then two calls about to start
ShInit ==
    /\ ExInit
    /\ \E f \in BOOLEAN : parked = FreshFrame(f)
    /\ calls_done = 0

\* the scheduler runs the other call: the attributes of the analyzer stay,
\* the locals are exchanged
Switch ==
    /\ parked' = Frame
    /\ Resume(parked)
    /\ UNCHANGED <<use_sdk, creds, calls_done>>
    /\ UNCHANGED <<decVars, segVars, upVars>>

\* the running call is over and a later call starts on the same analyzer
CallAgain(f) ==
    /\ pc = "done"
    /\ calls_done < MaxCalls
    /\ calls_done' = calls_done + 1
    /\ Resume(FreshFrame(f))
    /\ UNCHANGED <<use_sdk, creds, parked>>
    /\ UNCHANGED <<decVars, segVars, upVars>>

\* the answers of the service while two calls run: a submission is
\* accepted with an Operation-Location, refused or left without a response;
\* a poll is final
SharedSubmits ==
    {<<202, "opA">>, <<202, "opB">>, <<401, "">>, <<404, "">>,
     <<NoAnswer, "">>}
SharedPolls ==
    {<<200, "succeeded", "resume text">>, <<200, "succeeded", "other text">>,
     <<200, "failed", "">>, <<500, "running", "">>}

ShNext ==
    \/ Call
    \/ \E b \in BOOLEAN : SdkPath(b)
    \/ \E ok \in BOOLEAN : SdkResult(ok, "sdk text")
    \/ RestStart
    \/ \E r \in SharedSubmits : SubmitVersion(r[1], r[2])
    \/ \E r \in SharedSubmits : SubmitLegacy(r[1], r[2])
    \/ \E r \in SharedPolls : Poll(r[1], r[2], r[3])
    \/ Switch
    \/ \E f \in BOOLEAN : CallAgain(f)

(***************************************************************************)
(*                     PROPERTIES OF THE EXTRACTION                        *)
(***************************************************************************)

\* the endpoints submitted to, in the order of the submissions
SubmittedTiers == [i \in 1..Len(submitted) |-> submitted[i].tier]

SubRange(q, n) == SubSeq(q, 1, n)

AllTiers == api_versions \o <<legacy>>

NoneAccepted == \A i \in 1..Len(submitted) : submitted[i].status # 202

\* every tier was attempted and failed
AllTiersFailed ==
    /\ use_sdk => tried_sdk
    /\ SubmittedTiers = AllTiers
    /\ NoneAccepted

\* C1: extract_text_from_pdf raises only when every fallback tier (the SDK
\* path when enabled, the three API versions, the legacy endpoint) was
\* attempted and failed; it never raises while a later tier is unattempted.
C1_RaisesOnlyWhenAllTiersFailed ==
    outcome = "raised" => AllTiersFailed

\* the run on which C1 fails against the taxonomy of the specification
\* (a network fault is answered by the next fallback tier): the first
\* submission got no response and extraction raised with two API versions
\* and the legacy endpoint unattempted
C1_NetworkFaultLeavesTiers ==
    /\ outcome = "raised" /\ error = "network"
    /\ Len(submitted) = 1 /\ submitted[1].status = NoAnswer
    /\ ~AllTiersFailed

\* the first accepted submission, 0 when there is none
FirstAccepted ==
    LET hits == {i \in 1..Len(submitted) : submitted[i].status = 202}
    IN IF hits = {} THEN 0 ELSE CHOOSE i \in hits : \A j \in hits : i <= j

\* C2: no API version and no legacy endpoint is submitted to after the first
\* 202 response, and every poll goes to the Operation-Location of that
\* response.
C2_StopsAtFirstAccepted ==
    /\ FirstAccepted # 0 => FirstAccepted = Len(submitted)
    /\ polled # {} =>
          /\ FirstAccepted # 0
          /\ polled = {submitted[FirstAccepted].location}
    /\ attempt > 0 => polled # {}

\* C2 witness: the second version was accepted after a refusal and polled
C2_Witness ==
    /\ Len(submitted) = 2 /\ submitted[1].status = 401
    /\ submitted[2].status = 202 /\ submitted[2].location = "opB"
    /\ attempt = 2 /\ polled = {"opB"}

\* the submissions are over
SubmissionOver == pc \in {"poll", "done"} /\ submitted # <<>>

NoVersionAccepted ==
    \A i \in 1..Len(submitted) :
        submitted[i].tier # legacy => submitted[i].status # 202

\* every submission was answered with an HTTP status
EveryAnswered == \A i \in 1..Len(submitted) : submitted[i].status # NoAnswer

\* C3: the versions are tried in the fixed order, each once; when each of
\* the three answers a status that is not accepted (401 or other), all three
\* are tried and the legacy endpoint is submitted to exactly once; it is
\* never submitted to when a version was accepted, or before all three
\* have answered.
C3_LegacyExactlyOnce ==
    /\ \E n \in 0..Len(AllTiers) : SubmittedTiers = SubRange(AllTiers, n)
    /\ (SubmissionOver /\ EveryAnswered /\ NoVersionAccepted) =>
          SubmittedTiers = AllTiers
    /\ (\E i \in 1..Len(submitted) : submitted[i].tier = legacy) => NoVersionAccepted
    /\ pc = "legacy" =>
          (SubmittedTiers = api_versions /\ NoneAccepted /\ EveryAnswered)

\* C3 witness: a 401, then two other refusals, then the legacy endpoint
C3_Witness ==
    /\ SubmissionOver /\ Len(submitted) = 4
    /\ submitted[1].status = 401 /\ submitted[2].status = 404
    /\ submitted[3].status = 401 /\ submitted[4].tier = legacy

Pending(p) == p.http = 200 /\ p.status \in {"running", "notStarted"}

\* C4: a poll answering succeeded at poll k <= 30 ends extraction there with
\* the content of that answer; while the polls answer running or notStarted
\* below the budget, polling goes on; at the 30th such answer the timeout
\* is raised, and there is never a 31st poll.
C4_PollingBudget ==
    /\ attempt <= max_attempts
    /\ (last_poll.http = 200 /\ last_poll.status = "succeeded") =>
          /\ pc = "done" /\ outcome = "returned"
          /\ text = last_poll.content
    /\ (Pending(last_poll) /\ attempt < max_attempts) =>
          /\ pc = "poll" /\ outcome = "none"
    /\ (Pending(last_poll) /\ attempt = max_attempts) =>
          /\ pc = "done" /\ outcome = "raised" /\ error = "timeout"
    /\ error = "timeout" => attempt = max_attempts

\* C4 witness: 29 polls pending, then succeeded at the 30th
C4_Witness ==
    /\ attempt = max_attempts /\ outcome = "returned"
    /\ last_poll.status = "succeeded" /\ text = "resume text"

\* C12: when the endpoint or the key is missing, extraction issues no HTTP
\* submission, no poll and no SDK analyze call on any path, and ends with
\* the credential error.
C12_NoNetworkWithoutCredentials ==
    ~creds =>
        /\ submitted = <<>> /\ attempt = 0 /\ polled = {} /\ sdk_calls = 0
        /\ pc \notin {"sdk_wait", "submit", "legacy", "poll"}
        /\ pc = "done" => outcome = "raised" /\ error = "credentials"

\* the SDK path was entered and left, then the REST path raised
C12_Witness ==
    /\ ~creds /\ use_sdk /\ tried_sdk /\ file_ok
    /\ pc = "done" /\ error = "credentials"

\* C13: whenever extraction returns instead of raising, on the SDK path or
\* after a poll that answered succeeded, the text returned is not empty.
C13_ReturnedTextNonEmpty ==
    (pc = "done" /\ outcome = "returned") => text # ""

\* the status each submission answered, in the order of the submissions
AttemptedStatuses == [i \in 1..Len(submitted) |-> submitted[i].status]

\* C15: when no submission was ever accepted, the error raised by the REST
\* path names every attempted API version (and the legacy endpoint) with
\* the status each one returned, not only the last response.
C15_ErrorNamesEveryAttempt ==
    (pc = "done" /\ outcome = "raised" /\ AllTiersFailed) =>
        /\ error_details.versions = SubmittedTiers
        /\ error_details.statuses = AttemptedStatuses

\* the last poll was answered (HTTP 200) with the status failed or with a
\* status that is none of succeeded, failed, running, notStarted
EndingPoll ==
    /\ attempt > 0
    /\ last_poll.http = 200
    /\ last_poll.status \notin {"succeeded", "running", "notStarted"}

\* C17: a poll whose status is failed, or any value other than succeeded,
\* failed, running, notStarted, ends extraction with an error at that
\* poll: no later poll and no further submission is issued, and no text
\* is returned.
C17_EndingPollEndsExtraction ==
    /\ [](EndingPoll =>
            /\ pc = "done" /\ outcome = "raised" /\ text = ""
            /\ error = IF last_poll.status = "failed" THEN "failed"
                       ELSE "unknown_status")
    /\ [][EndingPoll =>
            /\ attempt' = attempt /\ polled' = polled
            /\ submitted' = submitted /\ sdk_calls' = sdk_calls
            /\ outcome' = outcome /\ text' = text]_vars

\* a status the code does not know, answered after polls that continued
C17_Witness ==
    /\ EndingPoll /\ attempt > 1 /\ pc = "done"
    /\ last_poll.status = "canceled" /\ error = "unknown_status"

\* C18: when the SDK path is enabled it is attempted first; any failure of
\* it is caught and followed by exactly one run of the REST path, whose
\* outcome is the outcome of extraction; when the SDK path succeeds no
\* REST submission is made.
C18_SdkFirstThenOneRestRun ==
    /\ rest_runs <= 1
    /\ use_sdk =>
          /\ (rest_runs > 0 \/ pc = "rest") => tried_sdk /\ ~sdk_returned
          /\ pc = "sdk_wait" =>
                tried_sdk /\ rest_runs = 0 /\ submitted = <<>>
          /\ (tried_sdk /\ ~sdk_returned /\ pc # "sdk_wait") =>
                (pc = "rest" /\ rest_runs = 0) \/ rest_runs = 1
          /\ pc = "done" => (rest_runs = 1) # sdk_returned
          /\ sdk_returned =>
                /\ pc = "done" /\ outcome = "returned" /\ text \in SdkTexts
                /\ rest_runs = 0 /\ submitted = <<>> /\ attempt = 0
          /\ outcome = "raised" => rest_runs = 1 /\ error # "sdk"

\* the analyze call of the SDK path failed and the REST path returned a text
C18_Witness ==
    /\ use_sdk /\ tried_sdk /\ sdk_calls = 1 /\ ~sdk_returned
    /\ rest_runs = 1 /\ pc = "done" /\ outcome = "returned"
    /\ text = "resume text"

\* C21: the text handed to the inference call (the text extraction
\* returned) has passed through section segmentation whichever tier
\* produced it: the SDK path, a REST API version or the legacy endpoint.
C21_ReturnedTextWasSegmented ==
    (pc = "done" /\ outcome = "returned") => seg_calls > 0

\* the last poll was answered with an HTTP status other than 200
RefusedPoll == attempt > 0 /\ last_poll.http # 200

\* C23: a poll whose HTTP status is not 200 ends extraction with an error
\* at once, even on the first poll: it is not retried, no later poll is
\* issued and the rest of the attempt budget is not used.
C23_RefusedPollEndsExtraction ==
    /\ [](RefusedPoll =>
            /\ pc = "done" /\ outcome = "raised" /\ error = "poll_http"
            /\ text = "")
    /\ [][RefusedPoll =>
            /\ attempt' = attempt /\ polled' = polled
            /\ submitted' = submitted /\ outcome' = outcome]_vars

\* the first poll is refused: 29 attempts of the budget stay unused
C23_Witness ==
    /\ RefusedPoll /\ attempt = 1 /\ pc = "done"
    /\ error = "poll_http" /\ attempt < max_attempts

(***************************************************************************)
(*                      PROPERTIES OF THE DECODING                         *)
(***************************************************************************)

\* C5 as stated: decoding is total; whatever the reply, parsing it and
\* building the record completes without raising.
C5_DecodingTotal ==
    dpc = "done" => dres = "returned"

\* the reply without its whitespace
Bare(s) == SelectSeq(s, LAMBDA tok : ~IsWs(tok))

\* the text parses
Parses(s) == Loads(s).ok

\* some fenced json block of the reply parses: an opening json fence, the
\* next fence after it, and a span between them that parses
SomeFencedBlockParses(s) ==
    \E i \in 1..Len(s), j \in 1..Len(s) :
        /\ i < j /\ s[i] = FenceJson /\ s[j] \in HasFence
        /\ \A k \in (i + 1)..(j - 1) : s[k] \notin HasFence
        /\ Parses(SubSeq(s, i + 1, j - 1))

\* the span from the first opening brace to the last closing brace parses
BraceSpanParses(s) ==
    \E i \in 1..Len(s), j \in 1..Len(s) :
        /\ i <= j /\ s[i] \in HasOpen /\ s[j] \in HasClose
        /\ \A k \in 1..(i - 1) : s[k] \notin HasOpen
        /\ \A k \in (j + 1)..Len(s) : s[k] \notin HasClose
        /\ Parses(SubSeq(s, i, j))

FullyUnparsable(s) ==
    ~Parses(s) /\ ~SomeFencedBlockParses(s) /\ ~BraceSpanParses(s)

\* C6: a reply that does not parse as a whole, has no parsable fenced json
\* block and no parsable span from its first opening to its last closing
\* brace decodes to the safe default: role_match_score 0.65 and a non-empty
\* summary.
C6_UnparsableGivesDefault ==
    (dpc = "done" /\ FullyUnparsable(reply)) =>
        /\ "default" \in ran
        /\ analysis_json = FallbackJson
        /\ dres = "returned"
        /\ record.role_match_score = 65
        /\ record.summary # ""

\* C6 witness: prose, a fenced block and a brace span, none of which parses
C6_Witness ==
    /\ dpc = "done" /\ dres = "returned"
    /\ reply = <<FenceJson, LBrace, Prose, Fence>>
    /\ ran = {"direct", "fenced", "greedy", "default"}

\* the objects with the expected keys
ConformingObjs == {ObjFull, ObjSkill}

\* C7: a reply that is one well-formed object with the expected keys is
\* decoded by the direct parse alone, and the record holds exactly the
\* values of the object.
C7_DirectRoundTrip ==
    (dpc = "done" /\ Len(Bare(reply)) = 1 /\ Bare(reply)[1] \in ConformingObjs) =>
        /\ ran = {"direct"}
        /\ dres = "returned"
        /\ Bare(reply)[1] = ObjFull =>
              record = [extracted_text |-> "resume text", skills |-> <<>>,
                        role_match_score |-> 42, strengths |-> <<"x">>,
                        gaps |-> <<>>, recommendations |-> <<>>,
                        summary |-> "ok"]
        /\ Bare(reply)[1] = ObjSkill =>
              record = [extracted_text |-> "resume text",
                        skills |-> <<[skill |-> "Python", relevance_score |-> 90,
                                      category |-> "technical"]>>,
                        role_match_score |-> 80, strengths |-> <<>>,
                        gaps |-> <<"y">>, recommendations |-> <<"z">>,
                        summary |-> "fit"]

\* C7 witness: the object with a skill entry, between two newlines
C7_Witness ==
    /\ dpc = "done" /\ reply = <<NL, ObjSkill, NL>>
    /\ Len(record.skills) = 1

\* the payloads a fenced block can hold: non-empty objects whose skills are
\* well formed
ValidPayloads == {ObjFull, ObjSkill, ObjPart}

\* prose around a single fenced json block holding a valid payload:
\* [pre, payload, post] when the reply has that shape
SingleFencedBlock(s) ==
    {sh \in [open : 1..Len(s), close : 1..Len(s)] :
        /\ sh.open < sh.close
        /\ s[sh.open] = FenceJson /\ s[sh.close] = Fence
        /\ \A k \in 1..Len(s) : k \notin {sh.open, sh.close} => s[k] \notin HasFence
        /\ Len(Bare(SubSeq(s, sh.open + 1, sh.close - 1))) = 1
        /\ Bare(SubSeq(s, sh.open + 1, sh.close - 1))[1] \in ValidPayloads
        /\ Prose \in {s[k] : k \in 1..(sh.open - 1)} \cup {s[k] : k \in (sh.close + 1)..Len(s)}}

PayloadOf(s, sh) == Bare(SubSeq(s, sh.open + 1, sh.close - 1))[1]

\* C8: with prose around a single fenced json block holding a valid payload,
\* the span between the opening json fence and the next fence is what is
\* parsed and returned (role_match_score 0.42 and strengths ["x"] for the
\* payload of the example); neither the greedy scan nor the safe default is
\* used.
C8_FencedBlockOnly ==
    dpc = "done" =>
        \A sh \in SingleFencedBlock(reply) :
            /\ ran = {"direct", "fenced"}
            /\ analysis_json = ObjValue(PayloadOf(reply, sh))
            /\ dres = "returned"
            /\ PayloadOf(reply, sh) = ObjFull =>
                  /\ record.role_match_score = 42
                  /\ record.strengths = <<"x">>

\* C8 witness: the reply of the example
C8_Witness ==
    /\ dpc = "done"
    /\ reply = <<Prose, FenceJson, NL, ObjFull, NL, Fence, Prose>>
    /\ record.role_match_score = 42 /\ record.strengths = <<"x">>

\* C14: every analysis record returned by analyze_resume is fully
\* populated, whatever object the reply parsed to: no field is null (the
\* sequences, the number and the string of the record are the values or
\* the defaults of their type).
C14_RecordFullyPopulated ==
    (dpc = "done" /\ dres = "returned") => record.summary # PyNone

\* the values the three parse attempts yield on a reply, each a set with
\* the value parsed or empty when the attempt fails: the whole text; the
\* span between the first opening json fence and the next fence; the span
\* from the first opening brace to the last closing brace
ParsedWhole(s) ==
    IF Parses(Strip(s)) THEN {Loads(Strip(s)).val} ELSE {}

ParsedFence(s) ==
    {Loads(SubSeq(s, i + 1, j - 1)).val :
        <<i, j>> \in {<<a, b>> \in (1..Len(s)) \X (1..Len(s)) :
            /\ a < b /\ s[a] = FenceJson /\ s[b] \in HasFence
            /\ \A k \in 1..(a - 1) : s[k] # FenceJson
            /\ \A k \in (a + 1)..(b - 1) : s[k] \notin HasFence
            /\ Parses(SubSeq(s, a + 1, b - 1))}}

ParsedBraces(s) ==
    {Loads(SubSeq(s, i, j)).val :
        <<i, j>> \in {<<a, b>> \in (1..Len(s)) \X (1..Len(s)) :
            /\ a <= b /\ s[a] \in HasOpen /\ s[b] \in HasClose
            /\ \A k \in 1..(a - 1) : s[k] \notin HasOpen
            /\ \A k \in (b + 1)..Len(s) : s[k] \notin HasClose
            /\ Parses(SubSeq(s, a, b))}}

\* the value of the first attempt, in the order direct parse, fenced block,
\* greedy scan, that parsed
FirstParsed(s) ==
    IF ParsedWhole(s) # {} THEN ParsedWhole(s)
    ELSE IF ParsedFence(s) # {} THEN ParsedFence(s)
    ELSE ParsedBraces(s)

\* C19: the strategies run in the order direct parse, fenced block, greedy
\* scan, and the safe default is returned only when all three parse
\* attempts failed: when one of them parsed a value, even an empty object,
\* the first value parsed, not the default, is what the decoder returns.
C19_DefaultOnlyWhenNothingParsed ==
    dpc \in {"parsed", "done"} =>
        /\ "default" \in ran => FirstParsed(reply) = {}
        /\ FirstParsed(reply) # {} => analysis_json \in FirstParsed(reply)
        /\ "direct" \in ran
        /\ ran \cap {"fenced", "greedy", "default"} # {} => ParsedWhole(reply) = {}

\* the safe default was returned and the record built from it
DefaultRecord ==
    dpc = "done" /\ "default" \in ran /\ dres = "returned"

\* C20 as stated: the safe-default record has exactly two skill entries,
\* role_match_score 0.65, exactly one strength, one gap and one
\* recommendation, and a summary noting the parse limitation.
C20_DefaultTwoSkillsOneEach ==
    DefaultRecord =>
        /\ Len(record.skills) = 2
        /\ record.role_match_score = 65
        /\ Len(record.strengths) = 1
        /\ Len(record.gaps) = 1
        /\ Len(record.recommendations) = 1
        /\ record.summary = "Candidate shows potential but full analysis was limited due to technical issues."

\* C20 amended: the safe-default record is a fixed constant with three
\* skill entries (two soft, one technical), role_match_score 0.65, two
\* strengths, one gap, two recommendations and a summary noting the
\* limitation, whatever the unparsable reply was.
C20_DefaultIsFixedConstant ==
    DefaultRecord =>
        /\ analysis_json = FallbackJson
        /\ Len(record.skills) = 3
        /\ {record.skills[i].category : i \in 1..3} = {"soft", "technical"}
        /\ Cardinality({i \in 1..3 : record.skills[i].category = "soft"}) = 2
        /\ record.role_match_score = 65
        /\ Len(record.strengths) = 2
        /\ Len(record.gaps) = 1
        /\ Len(record.recommendations) = 2
        /\ record.summary = "Candidate shows potential but full analysis was limited due to technical issues."
        /\ record.extracted_text = "resume text"

\* C20 witness: plain prose decoded to the default record
C20_Witness ==
    /\ DefaultRecord /\ reply = <<Prose, NL, Prose>>
    /\ Len(record.skills) = 3 /\ Len(record.recommendations) = 2

(***************************************************************************)
(*                    PROPERTIES OF THE SEGMENTATION                       *)
(***************************************************************************)

\* the lines of the document that are not blank
NonBlankLines == {Strip(l) : l \in {AllLines(pages)[i] : i \in 1..Len(AllLines(pages))}} \ {<<>>}

HeaderLines == {l \in NonBlankLines : IsHeader(l)}

\* C9: when no line is a header, by keyword or by shape, the result is the
\* one implicit section: the original text, unchanged.
C9_NoHeaderGivesContent ==
    (spc = "done" /\ HeaderLines = {}) =>
        /\ structured_sections = <<>>
        /\ seg_out = Content(pages)

\* C9 witness: a document of three lines, none a header
C9_Witness ==
    /\ spc = "done"
    /\ pages = <<<<LineLong, LineSentence>>, <<LineBullet>>>>
    /\ seg_out = LineLong \o <<NL>> \o LineSentence \o <<NL>> \o LineBullet

\* t occurs in s
Occurs(t, s) ==
    \E i \in 0..(Len(s) - Len(t)) : SubSeq(s, i + 1, i + Len(t)) = t

\* C10 as stated: the text of every non-blank line that is not a header
\* occurs in the output, the lines before the first header included.
C10_NoLineDropped ==
    spc = "done" =>
        \A l \in NonBlankLines \ HeaderLines : Occurs(l, seg_out)

\* C11: segmentation is idempotent: the text returned, split back into its
\* lines and segmented again, yields the same sections, headers and bodies,
\* and so the same text.
C11_Idempotent ==
    spc = "again" => re_sections = structured_sections /\ re_out = seg_out

(***************************************************************************)
(*                       PROPERTIES OF THE UPLOAD                          *)
(***************************************************************************)

\* C16: once process_file_upload has finished handling an upload, the
\* temporary file it wrote has been deleted, both when the analysis
\* succeeded and when extraction or analysis raised.
C16_TempFileDeleted ==
    upc = "done" => ~tmp_file

\* the positions, among all the lines of the document, of the header lines
HeaderIdx ==
    {k \in 1..Len(AllLines(pages)) :
        Strip(AllLines(pages)[k]) # <<>> /\ IsHeader(Strip(AllLines(pages)[k]))}

\* the position of the i-th header line, in document order
NthHeader(i) ==
    CHOOSE k \in HeaderIdx : Cardinality({j \in HeaderIdx : j < k}) = i - 1

\* the position of the header after the i-th, or past the last line
HeaderAfter(i) ==
    IF i < Cardinality(HeaderIdx) THEN NthHeader(i + 1)
    ELSE Len(AllLines(pages)) + 1

\* the words of the lines from position a to position b, in order
RECURSIVE WordsOfLines(_, _)
WordsOfLines(a, b) ==
    IF a > b THEN <<>>
    ELSE Split(AllLines(pages)[a]) \o WordsOfLines(a + 1, b)

IsPrefix(p, q) == Len(p) <= Len(q) /\ SubSeq(q, 1, Len(p)) = p

\* C22: each header line opens exactly one new section whose header is the
\* uppercased decorated line and whose body starts empty; the output has as
\* many sections as there were header lines, in document order, and the
\* body of each holds only lines between its header and the next, in order.
C22_OneSectionPerHeader ==
    spc \in {"done", "again"} =>
        /\ Len(structured_sections) = Cardinality(HeaderIdx)
        /\ \A i \in 1..Len(structured_sections) :
              LET sec == structured_sections[i]
                  hdr == NewSection(Strip(AllLines(pages)[NthHeader(i)]))
              IN /\ hdr = <<NL, NL, Deco, SP>>
                            \o Upper(Strip(AllLines(pages)[NthHeader(i)]))
                            \o <<SP, Deco, NL>>
                 /\ IsPrefix(hdr, sec)
                 /\ IsPrefix(Split(SubSeq(sec, Len(hdr) + 1, Len(sec))),
                             WordsOfLines(NthHeader(i) + 1, HeaderAfter(i) - 1))

\* C22 witness: a keyword header, a body line, then a header by shape
C22_Witness ==
    /\ spc = "done"
    /\ pages = <<<<LineKeyword, LineLong, LineName>>>>
    /\ structured_sections =
          << <<NL, NL, Deco, SP, "SKILLS", SP, Deco, NL, SP>> \o LineLong,
             <<NL, NL, Deco, SP, "JANE", SP, "DOE", SP, Deco, NL>> >>

(***************************************************************************)
(*               PROPERTIES OF CALLS SHARING ONE ANALYZER                  *)
(***************************************************************************)

\* the call fr has selected its path and its tiers as a first call does:
\* the SDK path first exactly when use_sdk is set, the REST tiers in the
\* order of the list from its first entry, the credential error when the
\* credentials are missing
SelectsAsFirstCall(fr) ==
    /\ fr.pc \in {"sdk", "sdk_wait"} => use_sdk
    /\ fr.pc \notin {"call", "sdk"} => fr.tried_sdk = use_sdk
    /\ [i \in 1..Len(fr.submitted) |-> fr.submitted[i].tier]
          = SubRange(AllTiers, Len(fr.submitted))
    /\ (fr.pc = "done" /\ ~creds) => fr.error = "credentials"
    /\ (fr.submitted # <<>> \/ fr.sdk_calls > 0) => creds /\ fr.file_ok

\* the result of the call fr comes from its own requests: it polled the
\* Operation-Location of its own accepted submission only, and the text it
\* returned through REST is the content of its own last poll
OwnResult(fr) ==
    /\ fr.operation_location # "" =>
          /\ fr.submitted # <<>>
          /\ fr.submitted[Len(fr.submitted)].status = 202
          /\ fr.submitted[Len(fr.submitted)].location = fr.operation_location
    /\ fr.polled \subseteq {fr.operation_location}
    /\ fr.attempt > 0 => fr.polled = {fr.operation_location}
    /\ (fr.outcome = "returned" /\ ~fr.sdk_returned) =>
          /\ fr.last_poll.status = "succeeded"
          /\ fr.text = fr.last_poll.content

\* C24: an extraction call leaves the configuration of the analyzer
\* (use_sdk, endpoint and key) unchanged whatever its outcome, an SDK
\* failure that fell back to REST included; a later call selects its path
\* and tiers as a first call would, and two calls interleaved on the
\* shared analyzer do not affect each other's results.
C24_CallsLeaveAnalyzerUnchanged ==
    /\ [][use_sdk' = use_sdk /\ creds' = creds]_vars
    /\ [](SelectsAsFirstCall(Frame) /\ SelectsAsFirstCall(parked))
    /\ [](OwnResult(Frame) /\ OwnResult(parked))

\* a later call, whose SDK call failed and whose REST run returned a text,
\* while the other call waits for the answer of a poll at another URL
C24_Witness ==
    /\ calls_done > 0
    /\ use_sdk /\ tried_sdk /\ sdk_calls = 1 /\ ~sdk_returned
    /\ pc = "done" /\ outcome = "returned" /\ text = "resume text"
    /\ operation_location = "opA"
    /\ parked.pc = "poll" /\ parked.operation_location = "opB"
    /\ parked.tried_sdk /\ parked.sdk_calls = 1

(***************************************************************************)
(*                            SPECIFICATIONS                               *)
(***************************************************************************)

Init == ExInit /\ DecIdle /\ SegIdle /\ UpIdle /\ ShIdle
Next == ExNext
Spec == Init /\ [][Next]_vars

InitDecode == ExIdle /\ DecInit /\ SegIdle /\ UpIdle /\ ShIdle
NextDecode == DecNext
SpecDecode == InitDecode /\ [][NextDecode]_vars

InitSegment == ExIdle /\ DecIdle /\ SegInit /\ UpIdle /\ ShIdle
NextSegment == SegNext
SpecSegment == InitSegment /\ [][NextSegment]_vars

InitUpload == UpInit /\ DecIdle /\ SegIdle /\ ShIdle
NextUpload == UpNext
SpecUpload == InitUpload /\ [][NextUpload]_vars

InitShared == ShInit /\ DecIdle /\ SegIdle /\ UpIdle
NextShared == ShNext
SpecShared == InitShared /\ [][NextShared]_vars
====
